---- MODULE Spec2Model ----
(***************************************************************************)
(* Sand QC engine of mortar_QC.py: PSD parsing, interpolation of the       *)
(* passing percent at a cutoff, the three-tier mortar compatibility        *)
(* classifier, the reject mass balance, and the render cycle of main().    *)
(*                                                                         *)
(* Python floats are modelled as exact rationals [n, d] (d > 0, lowest     *)
(* terms); the not-a-number float is the record with d = 0.  Binary        *)
(* rounding of float arithmetic is outside the model.                      *)
(***************************************************************************)
EXTENDS Integers, Sequences, FiniteSets, TLC

VARIABLES
    pc,                     \* position in the running call / render cycle
    err,                    \* exception raised, "none" when there is none
    text_area,              \* pasted PSD text: sequence of lines, a line is a sequence of characters
    csv_file,               \* uploaded CSV file, NoFile when there is none
    mbv, se, fines_cutoff,  \* sidebar inputs
    add_entry,              \* "Add Current Entry to History" pressed in this run
    df_psd,                 \* the PSD table: sequence of [Sieve_mm, Passing_pct]
    fines_percent,          \* result of interpolate_passing_at
    cutoff2, fines2,        \* a second interpolation query on the same table
    compatibility,          \* result of get_mortar_compatibility
    qc_history,             \* st.session_state.qc_history
    feed_fines_pct, reject_rate_pct, reject_fines_grade_pct,
    product_fines_pct       \* result of mass_balance_after_reject

vars == <<pc, err, text_area, csv_file, mbv, se, fines_cutoff, add_entry, df_psd,
          fines_percent, cutoff2, fines2, compatibility, qc_history,
          feed_fines_pct, reject_rate_pct, reject_fines_grade_pct, product_fines_pct>>

----------------------------------------------------------------------------
(* Float values as exact rationals *)

RECURSIVE GCD(_, _)
GCD(a, b) == IF b = 0 THEN a ELSE GCD(b, a % b)

Abs(x) == IF x < 0 THEN -x ELSE x

\* n/d in lowest terms with a positive denominator (d # 0)
Rat(n, d) ==
    LET g == GCD(Abs(n), Abs(d))
        s == IF d < 0 THEN -1 ELSE 1
    IN  [n |-> s * (n \div g), d |-> s * (d \div g)]

Float(i) == [n |-> i, d |-> 1]

NaN == [n |-> 0, d |-> 0]

IsNaN(a) == a.d = 0

RAdd(a, b) == Rat(a.n * b.d + b.n * a.d, a.d * b.d)
RSub(a, b) == Rat(a.n * b.d - b.n * a.d, a.d * b.d)
RMul(a, b) == Rat(a.n * b.n, a.d * b.d)
RDiv(a, b) == Rat(a.n * b.d, a.d * b.n)
RAbs(a) == [n |-> Abs(a.n), d |-> a.d]

\* a < b by cross-multiplication; the product with the larger denominator is
\* replaced by a floor division, so that 1e-9 and 1e-12 stay within TLC's integers
RLt(a, b) ==
    IF b.d >= a.d
    THEN a.n <= ((b.n * a.d) - 1) \div b.d
    ELSE b.n > (a.n * b.d) \div a.d

\* Python's comparison operators on floats: every comparison with nan is False
FLt(a, b) == ~IsNaN(a) /\ ~IsNaN(b) /\ RLt(a, b)
FGt(a, b) == FLt(b, a)
FLe(a, b) == ~IsNaN(a) /\ ~IsNaN(b) /\ ~RLt(b, a)
FGe(a, b) == FLe(b, a)

\* Python's max(a, b) and min(a, b): the first argument unless the second beats it
PyMax(a, b) == IF FGt(b, a) THEN b ELSE a
PyMin(a, b) == IF FLt(b, a) THEN b ELSE a

\* the literal 1e-9
EPS9 == Rat(1, 1000000000)

\* a < 1e-12, computed as 1000 * a < 1e-9
LtEPS12(a) == RLt(RMul(a, Float(1000)), EPS9)

----------------------------------------------------------------------------
(* Text: a str is a sequence of one-character strings *)

DEFAULT_PSD_TEXT ==
    <<"1", "2", ".", "2", ":", " ", "1", "0", "0", "\n">> \o <<"1", "0", ":", " ", "9", "0", "\n">> \o
    <<"8", ":", " ", "8", "0", "\n">> \o <<"6", ".", "3", ":", " ", "6", "4", "\n">> \o
    <<"5", ".", "2", ":", " ", "6", "1", "\n">> \o <<"4", ":", " ", "6", "0", "\n">> \o
    <<"3", ".", "2", ":", " ", "5", "2", "\n">> \o <<"2", ".", "5", ":", " ", "4", "5", "\n">> \o
    <<"2", ":", " ", "4", "2", "\n">> \o
    <<"1", ".", "2", "5", ":", " ", "3", "0", "\n">> \o <<"1", ":", " ", "3", "0", "\n">> \o
    <<"0", ".", "8", ":", " ", "2", "7", "\n">> \o <<"0", ".", "5", ":", " ", "2", "4", "\n">> \o
    <<"0", ".", "4", ":", " ", "2", "2", "\n">> \o <<"0", ".", "3", "5", "5", ":", " ", "2", "1", "\n">> \o
    <<"0", ".", "3", "1", "5", ":", " ", "1", "7", "\n">> \o <<"0", ".", "2", "5", "0", ":", " ", "1", "7", "\n">> \o
    <<"0", ".", "1", "8", "0", ":", " ", "1", "6", "\n">> \o <<"0", ".", "1", "6", "0", ":", " ", "1", "5", "\n">> \o
    <<"0", ".", "1", "2", "5", ":", " ", "1", "4", "\n">> \o <<"0", ".", "1", "0", "0", ":", " ", "1", "4", "\n">> \o
    <<"0", ".", "0", "9", "0", ":", " ", "1", "4", "\n">> \o <<"0", ".", "0", "6", "3", ":", " ", "1", "3", ".", "7">>

Whitespace == {" ", "\n", "\t"}
Digits == {"0", "1", "2", "3", "4", "5", "6", "7", "8", "9"}
DigitVal ==
    [c \in Digits |->
        CASE c = "0" -> 0 [] c = "1" -> 1 [] c = "2" -> 2 [] c = "3" -> 3 [] c = "4" -> 4
          [] c = "5" -> 5 [] c = "6" -> 6 [] c = "7" -> 7 [] c = "8" -> 8 [] c = "9" -> 9]

\* str.strip()
RECURSIVE LStrip(_)
LStrip(s) == IF s # <<>> /\ Head(s) \in Whitespace THEN LStrip(Tail(s)) ELSE s
RECURSIVE RStrip(_)
RStrip(s) ==
    IF s # <<>> /\ s[Len(s)] \in Whitespace THEN RStrip(SubSeq(s, 1, Len(s) - 1)) ELSE s
Strip(s) == RStrip(LStrip(s))

\* str.split(sep) for a one-character separator: always at least one field
RECURSIVE Split(_, _)
Split(s, sep) ==
    IF \A i \in 1..Len(s) : s[i] # sep
    THEN <<s>>
    ELSE LET k == CHOOSE i \in 1..Len(s) : s[i] = sep /\ \A j \in 1..(i - 1) : s[j] # sep
         IN  <<SubSeq(s, 1, k - 1)>> \o Split(SubSeq(s, k + 1, Len(s)), sep)

Contains(s, c) == \E i \in 1..Len(s) : s[i] = c

RECURSIVE Pow10(_)
Pow10(k) == IF k = 0 THEN 1 ELSE 10 * Pow10(k - 1)

RECURSIVE DigitsVal(_)
DigitsVal(s) == IF s = <<>> THEN 0 ELSE 10 * DigitsVal(SubSeq(s, 1, Len(s) - 1)) + DigitVal[s[Len(s)]]

\* float(s) of a decimal literal: optional sign, digits with at most one point;
\* anything else raises ValueError.  Exponents, inf, nan and underscores, which
\* float() also reads, are not among the characters of the inputs.
Unsigned(s) == IF s # <<>> /\ Head(s) \in {"+", "-"} THEN Tail(s) ELSE s
IsFloatLiteral(s) ==
    LET u == Unsigned(Strip(s))
    IN  /\ \A i \in 1..Len(u) : u[i] \in Digits \cup {"."}
        /\ \E i \in 1..Len(u) : u[i] \in Digits
        /\ Cardinality({i \in 1..Len(u) : u[i] = "."}) <= 1
float(s) ==
    LET t == Strip(s)
        u == Unsigned(t)
        parts == Split(u, ".")
        frac == IF Len(parts) = 2 THEN parts[2] ELSE <<>>
        mag == Rat(DigitsVal(parts[1]) * Pow10(Len(frac)) + DigitsVal(frac), Pow10(Len(frac)))
    IN  IF t # <<>> /\ Head(t) = "-" THEN [n |-> -mag.n, d |-> mag.d] ELSE mag

----------------------------------------------------------------------------
(* parse_text_sieve *)

Row(size, pct) == [Sieve_mm |-> size, Passing_pct |-> pct]

\* one iteration of the loop over the lines: the rows with this line taken in
ParseLine(rows, line) ==
    IF ~Contains(Strip(line), ":")
    THEN rows                                           \* continue
    ELSE LET fields == Split(line, ":")
         IN  IF Len(fields) # 2
             THEN rows                                  \* unpacking raises ValueError
             ELSE IF ~IsFloatLiteral(fields[1]) \/ ~IsFloatLiteral(fields[2])
             THEN rows                                  \* float() raises ValueError
             ELSE Append(rows, Row(float(fields[1]), float(fields[2])))

RECURSIVE ParseLines(_, _)
ParseLines(rows, lines) ==
    IF lines = <<>> THEN rows ELSE ParseLines(ParseLine(rows, Head(lines)), Tail(lines))

parse_text_sieve(text) == ParseLines(<<>>, Split(Strip(text), "\n"))

----------------------------------------------------------------------------
(* parse_csv *)

\* an uploaded file: its header names and its data rows, a row being its fields;
\* NoFile is the uploader's None
NoFile == [present |-> FALSE, header |-> <<>>, rows |-> <<>>]

\* str.lower() on the column names that occur
Lower(c) ==
    CASE c = "Sieve_mm" -> "sieve_mm"
      [] c = "PASSING" -> "passing"
      [] c = "Sieve" -> "sieve"
      [] c = "Passing_pct" -> "passing_pct"
      [] OTHER -> c

\* pd.read_csv: one cell per header column; a field that is absent or empty is NA
read_csv(file) ==
    [columns |-> file.header,
     cells |-> [r \in 1..Len(file.rows) |->
                  [j \in 1..Len(file.header) |->
                      IF j <= Len(file.rows[r]) /\ file.rows[r][j] # <<>>
                      THEN [na |-> FALSE, text |-> file.rows[r][j]]
                      ELSE [na |-> TRUE, text |-> <<>>]]]]

\* cols.get(a1) or cols.get(a2) or cols.get(a3) or df.columns[k], as a column index
ResolveColumn(columns, aliases, k) ==
    LET Has(a) == \E j \in 1..Len(columns) : Lower(columns[j]) = a
        \* the dict keeps the last column of a lower-cased name
        Get(a) == CHOOSE j \in 1..Len(columns) :
                      /\ Lower(columns[j]) = a
                      /\ \A i \in (j + 1)..Len(columns) : Lower(columns[i]) # a
    IN  IF Has(aliases[1]) THEN Get(aliases[1])
        ELSE IF Has(aliases[2]) THEN Get(aliases[2])
        ELSE IF Has(aliases[3]) THEN Get(aliases[3])
        ELSE k

\* [err, rows]: dropna() drops the rows with an NA cell, then astype(float) converts
\* every cell left and raises ValueError on one that is not a number
parse_csv(file) ==
    LET df == read_csv(file)
        sieve_col == ResolveColumn(df.columns, <<"sieve_mm", "sieve", "size_mm">>, 1)
        pass_col == ResolveColumn(df.columns, <<"passing_pct", "passing", "%passing">>, 2)
        out == [r \in 1..Len(df.cells) |-> <<df.cells[r][sieve_col], df.cells[r][pass_col]>>]
        kept == SelectSeq(out, LAMBDA row : ~row[1].na /\ ~row[2].na)
    IN  IF \E r \in 1..Len(kept) :
               ~IsFloatLiteral(kept[r][1].text) \/ ~IsFloatLiteral(kept[r][2].text)
        THEN [err |-> "ValueError", rows |-> <<>>]
        ELSE [err |-> "none",
              rows |-> [r \in 1..Len(kept) |->
                           Row(float(kept[r][1].text), float(kept[r][2].text))]]

----------------------------------------------------------------------------
(* interpolate_passing_at *)

IsSortedDesc(t) ==
    \A i \in 1..(Len(t) - 1) : ~RLt(t[i].Sieve_mm, t[i + 1].Sieve_mm)

\* the rows of df at the indices S, coarsest first; rows of equal size in any order
RECURSIVE Descending(_, _)
Descending(df, S) ==
    IF S = {}
    THEN {<<>>}
    ELSE UNION {{<<df[i]>> \o rest : rest \in Descending(df, S \ {i})} :
                i \in {j \in S : \A k \in S : ~RLt(df[j].Sieve_mm, df[k].Sieve_mm)}}

RECURSIVE Ascending(_, _)
Ascending(df, S) ==
    IF S = {}
    THEN {<<>>}
    ELSE UNION {{<<df[i]>> \o rest : rest \in Ascending(df, S \ {i})} :
                i \in {j \in S : \A k \in S : ~RLt(df[k].Sieve_mm, df[j].Sieve_mm)}}

\* the sort with ascending=True
sort_values_ascending(df) == Ascending(df, 1..Len(df))

\* df.sort_values("Sieve_mm", ascending=False): the default sort is not stable, so
\* rows of equal size may come out in any order; the set of possible outcomes
sort_values(df) == Descending(df, 1..Len(df))

\* the bracket's value with the two ends exchanged
Bracket_swapped(s_hi, s_lo, p_hi, p_lo, cutoff_mm) ==
    IF LtEPS12(RAbs(RSub(s_hi, s_lo)))
    THEN RDiv(RAdd(p_hi, p_lo), Float(2))
    ELSE LET t == RDiv(RSub(cutoff_mm, s_lo), RSub(s_hi, s_lo))
         IN  RAdd(p_hi, RMul(t, RSub(p_lo, p_hi)))

\* lines 67-72: the value returned inside the bracket s_hi >= cutoff_mm >= s_lo
Bracket(s_hi, s_lo, p_hi, p_lo, cutoff_mm) ==
    IF LtEPS12(RAbs(RSub(s_hi, s_lo)))
    THEN RDiv(RAdd(p_hi, p_lo), Float(2))
    ELSE LET t == RDiv(RSub(cutoff_mm, s_lo), RSub(s_hi, s_lo))
         IN  RAdd(p_lo, RMul(t, RSub(p_hi, p_lo)))

\* the loop of lines 59-74 from 1-based index i on; nan when it runs out
RECURSIVE InterpolateLoop(_, _, _)
InterpolateLoop(sorted, cutoff_mm, i) ==
    IF i > Len(sorted) - 1
    THEN NaN
    ELSE LET s_hi == sorted[i].Sieve_mm
             s_lo == sorted[i + 1].Sieve_mm
             p_hi == sorted[i].Passing_pct
             p_lo == sorted[i + 1].Passing_pct
         IN  IF RLt(RAbs(RSub(s_hi, cutoff_mm)), EPS9)
             THEN p_hi
             ELSE IF FGe(s_hi, cutoff_mm) /\ FGe(cutoff_mm, s_lo)
             THEN Bracket(s_hi, s_lo, p_hi, p_lo, cutoff_mm)
             ELSE InterpolateLoop(sorted, cutoff_mm, i + 1)

\* the two flat extrapolations exchanged
InterpolateSorted_swapped_ends(sorted, cutoff_mm) ==
    IF FGt(cutoff_mm, sorted[1].Sieve_mm)
    THEN sorted[Len(sorted)].Passing_pct
    ELSE IF FLt(cutoff_mm, sorted[Len(sorted)].Sieve_mm)
    THEN sorted[1].Passing_pct
    ELSE InterpolateLoop(sorted, cutoff_mm, 1)

\* lines 51-74 on the sorted frame
InterpolateSorted(sorted, cutoff_mm) ==
    IF FGt(cutoff_mm, sorted[1].Sieve_mm)
    THEN sorted[1].Passing_pct
    ELSE IF FLt(cutoff_mm, sorted[Len(sorted)].Sieve_mm)
    THEN sorted[Len(sorted)].Passing_pct
    ELSE InterpolateLoop(sorted, cutoff_mm, 1)

\* the values a call may return
interpolate_passing_at(df, cutoff_mm) ==
    IF df = <<>>
    THEN {NaN}
    ELSE {InterpolateSorted(sorted, cutoff_mm) : sorted \in sort_values(df)}

----------------------------------------------------------------------------
(* get_mortar_compatibility *)

MORTAR_FLAG_THRESHOLDS ==
    [unsuitable |-> [mbv |-> Float(4),      se |-> Float(70), fines |-> Float(15)],
     safe       |-> [mbv |-> Rat(25, 10), se |-> Float(75), fines |-> Float(10)]]

SAFE == "Safe for all mortar types"
UNSUITABLE == "Not suitable for tile/self-leveling"
RESTRICTED == "Use only in plaster or screed"

\* the Safe gate with a strict comparison on SE
get_mortar_compatibility_strict_se(m, s, fines) ==
    LET safe == MORTAR_FLAG_THRESHOLDS.safe
        unsuitable == MORTAR_FLAG_THRESHOLDS.unsuitable
    IN  IF FLe(m, safe.mbv) /\ FGt(s, safe.se) /\ FLe(fines, safe.fines)
        THEN SAFE
        ELSE IF FGt(m, unsuitable.mbv) \/ FLt(s, unsuitable.se) \/ FGt(fines, unsuitable.fines)
        THEN UNSUITABLE
        ELSE RESTRICTED

get_mortar_compatibility(m, s, fines) ==
    LET safe == MORTAR_FLAG_THRESHOLDS.safe
        unsuitable == MORTAR_FLAG_THRESHOLDS.unsuitable
    IN  IF FLe(m, safe.mbv) /\ FGe(s, safe.se) /\ FLe(fines, safe.fines)
        THEN SAFE
        ELSE IF FGt(m, unsuitable.mbv) \/ FLt(s, unsuitable.se) \/ FGt(fines, unsuitable.fines)
        THEN UNSUITABLE
        ELSE RESTRICTED

----------------------------------------------------------------------------
(* mass_balance_after_reject *)

\* Python's a / b on floats, kept as the exact quotient of two rationals;
\* b = 0.0 raises ZeroDivisionError
FDiv(a, b) == [num |-> a, den |-> b, fault |-> (b.n = 0)]

\* the quotient q (q.den > 0) compared with the rational x
QLe(q, x) == (q.num.n * x.d) <= (x.n * q.num.d * q.den.n) \div q.den.d
QGe(q, x) == (q.num.n * x.d) >= -((-(x.n * q.num.d * q.den.n)) \div q.den.d)
QEq(q, x) == QLe(q, x) /\ QGe(q, x)

\* the reject's fines taken as its grade, not scaled by the reject mass
mass_balance_unscaled_reject(feed, rate, grade) ==
    LET fF == RDiv(feed, Float(100))
        R == PyMax(Float(0), PyMin(Float(1), RDiv(rate, Float(100))))
        fR == PyMax(Float(0), PyMin(Float(1), RDiv(grade, Float(100))))
        product_mass == RSub(Float(1), R)
        product_fines_mass == PyMax(Float(0), RSub(fF, fR))
    IN  FDiv(RMul(Float(100), product_fines_mass), PyMax(EPS9, product_mass))

\* the division without its 1e-9 guard
mass_balance_unguarded(feed, rate, grade) ==
    LET fF == RDiv(feed, Float(100))
        R == PyMax(Float(0), PyMin(Float(1), RDiv(rate, Float(100))))
        fR == PyMax(Float(0), PyMin(Float(1), RDiv(grade, Float(100))))
        product_mass == RSub(Float(1), R)
        product_fines_mass == PyMax(Float(0), RSub(fF, RMul(R, fR)))
    IN  FDiv(RMul(Float(100), product_fines_mass), product_mass)

\* the product fines mass without its clamp at 0
mass_balance_unclamped(feed, rate, grade) ==
    LET fF == RDiv(feed, Float(100))
        R == PyMax(Float(0), PyMin(Float(1), RDiv(rate, Float(100))))
        fR == PyMax(Float(0), PyMin(Float(1), RDiv(grade, Float(100))))
        product_mass == RSub(Float(1), R)
        product_fines_mass == RSub(fF, RMul(R, fR))
    IN  FDiv(RMul(Float(100), product_fines_mass), PyMax(EPS9, product_mass))

mass_balance_after_reject(feed, rate, grade) ==
    LET fF == RDiv(feed, Float(100))
        R == PyMax(Float(0), PyMin(Float(1), RDiv(rate, Float(100))))
        fR == PyMax(Float(0), PyMin(Float(1), RDiv(grade, Float(100))))
        fines_feed_mass == RMul(Float(1), fF)
        reject_mass == RMul(Float(1), R)
        fines_reject_mass == RMul(reject_mass, fR)
        product_mass == RSub(Float(1), reject_mass)
        product_fines_mass == PyMax(Float(0), RSub(fines_feed_mass, fines_reject_mass))
    IN  FDiv(RMul(Float(100), product_fines_mass), PyMax(EPS9, product_mass))

----------------------------------------------------------------------------
(* Values of the variables a specification does not use *)

NoQuot == FDiv(Float(0), Float(1))

IdleUI ==
    /\ text_area = <<>> /\ csv_file = NoFile /\ add_entry = FALSE
    /\ qc_history = <<>>
IdlePSD ==
    /\ df_psd = <<>> /\ fines_cutoff = Float(0) /\ fines_percent = NaN
    /\ cutoff2 = Float(0) /\ fines2 = NaN
IdleLab ==
    /\ mbv = Float(0) /\ se = Float(0) /\ compatibility = "none"
IdleMass ==
    /\ feed_fines_pct = Float(0) /\ reject_rate_pct = Float(0)
    /\ reject_fines_grade_pct = Float(0) /\ product_fines_pct = NoQuot

----------------------------------------------------------------------------
(* The classifier applied to one input triple *)

MbvHalves == 10
SeSpan == 10
FinesSpan == 5

MbvInputs == {Rat(i, 2) : i \in 0..MbvHalves}
SeInputs ==
    {Float(i) : i \in (MORTAR_FLAG_THRESHOLDS.unsuitable.se.n - SeSpan) ..
                      (MORTAR_FLAG_THRESHOLDS.safe.se.n + SeSpan)}
FinesInputs ==
    {Float(i) : i \in (MORTAR_FLAG_THRESHOLDS.safe.fines.n - FinesSpan) ..
                      (MORTAR_FLAG_THRESHOLDS.unsuitable.fines.n + FinesSpan)}
      \cup {NaN}

InitClassify ==
    /\ pc = "start" /\ err = "none"
    /\ IdleUI /\ IdleMass
    /\ df_psd = <<>> /\ fines_cutoff = Float(0) /\ cutoff2 = Float(0) /\ fines2 = NaN
    /\ mbv \in MbvInputs /\ se \in SeInputs /\ fines_percent \in FinesInputs
    /\ compatibility = "none"

Classify ==
    /\ pc = "start"
    /\ compatibility' = get_mortar_compatibility(mbv, se, fines_percent)
    /\ pc' = "done"
    /\ UNCHANGED <<err, text_area, csv_file, mbv, se, fines_cutoff, add_entry, df_psd,
                   fines_percent, cutoff2, fines2, qc_history,
                   feed_fines_pct, reject_rate_pct, reject_fines_grade_pct, product_fines_pct>>

NextClassify == Classify

SpecClassify == InitClassify /\ [][NextClassify]_vars

\* the three gates as the claim words them, on the inputs of the call
ClaimSafe ==
    /\ ~IsNaN(fines_percent)
    /\ 10 * mbv.n <= 25 * mbv.d
    /\ se.n >= 75 * se.d
    /\ fines_percent.n <= 10 * fines_percent.d
ClaimHardFail ==
    \/ mbv.n > 4 * mbv.d
    \/ se.n < 70 * se.d
    \/ (~IsNaN(fines_percent) /\ fines_percent.n > 15 * fines_percent.d)

\* C1: get_mortar_compatibility returns exactly one of the three tiers: Safe iff
\* mbv <= 2.5 and se >= 75 and fines <= 10; Unsuitable iff not Safe and (mbv > 4.0
\* or se < 70 or fines > 15); Restricted in every remaining case.  In particular
\* (2.0, 80, 8) is Safe, (5.0, 60, 20) is Unsuitable and (3.0, 72, 12) is Restricted.
C1_Tiers ==
    pc = "done" =>
        /\ compatibility \in {SAFE, UNSUITABLE, RESTRICTED}
        /\ (compatibility = SAFE) <=> ClaimSafe
        /\ (compatibility = UNSUITABLE) <=> (~ClaimSafe /\ ClaimHardFail)
        /\ (compatibility = RESTRICTED) <=> (~ClaimSafe /\ ~ClaimHardFail)
        /\ (mbv = Float(2) /\ se = Float(80) /\ fines_percent = Float(8))
              => compatibility = SAFE
        /\ (mbv = Float(5) /\ se = Float(60) /\ fines_percent = Float(20))
              => compatibility = UNSUITABLE
        /\ (mbv = Float(3) /\ se = Float(72) /\ fines_percent = Float(12))
              => compatibility = RESTRICTED

C1_Witness ==
    /\ pc = "done"
    /\ mbv = Rat(5, 2) /\ se = Float(75) /\ fines_percent = Float(10)
    /\ compatibility = SAFE

----------------------------------------------------------------------------
(* The mass balance applied to one input triple *)

PctCells == 10
PctOver == 1

\* a grid over [0, 100] that always holds 0 and 100, with PctOver cells on either side
PctInputs == {Rat(100 * i, PctCells) : i \in (-PctOver)..(PctCells + PctOver)}

InitMass ==
    /\ pc = "start" /\ err = "none"
    /\ IdleUI /\ IdlePSD /\ IdleLab
    /\ feed_fines_pct \in PctInputs
    /\ reject_rate_pct \in PctInputs
    /\ reject_fines_grade_pct \in PctInputs
    /\ product_fines_pct = NoQuot

MassBalance ==
    /\ pc = "start"
    /\ LET q == mass_balance_after_reject(feed_fines_pct, reject_rate_pct, reject_fines_grade_pct)
       IN  /\ product_fines_pct' = q
           /\ err' = IF q.fault THEN "ZeroDivisionError" ELSE "none"
    /\ pc' = "done"
    /\ UNCHANGED <<text_area, csv_file, mbv, se, fines_cutoff, add_entry, df_psd,
                   fines_percent, cutoff2, fines2, compatibility, qc_history,
                   feed_fines_pct, reject_rate_pct, reject_fines_grade_pct>>

NextMass == MassBalance

SpecMass == InitMass /\ [][NextMass]_vars

InPct(x) == FLe(Float(0), x) /\ FLe(x, Float(100))

\* C5 as stated: for any feed fines percent x and any reject grade g,
\* mass_balance_after_reject(x, 0, g) = x.
C5_NoRejectAnyFeed ==
    (pc = "done" /\ reject_rate_pct = Float(0)) =>
        (~product_fines_pct.fault /\ QEq(product_fines_pct, feed_fines_pct))

\* C5 as amended: for any feed fines percent x >= 0 and any reject grade g,
\* mass_balance_after_reject(x, 0, g) = x.
C5_NoRejectNonNegFeed ==
    (pc = "done" /\ reject_rate_pct = Float(0) /\ FGe(feed_fines_pct, Float(0))) =>
        (~product_fines_pct.fault /\ QEq(product_fines_pct, feed_fines_pct))

C5_Witness ==
    /\ pc = "done" /\ reject_rate_pct = Float(0)
    /\ feed_fines_pct = Float(50) /\ reject_fines_grade_pct = Float(80)
    /\ QEq(product_fines_pct, Float(50))

\* C9: for every input triple, including reject_rate_pct = 100 and values outside
\* [0, 100], the divisor is at least 1e-9, no division fault is raised and the
\* result is finite and non-negative; in particular for (10, 100, 100).
C9_FailSoft ==
    pc = "done" =>
        /\ err = "none"
        /\ ~product_fines_pct.fault
        /\ FGe(product_fines_pct.den, EPS9)
        /\ product_fines_pct.num.d > 0
        /\ product_fines_pct.num.n >= 0

C9_Witness ==
    /\ pc = "done" /\ err = "none"
    /\ feed_fines_pct = Float(10) /\ reject_rate_pct = Float(100)
    /\ reject_fines_grade_pct = Float(100)
    /\ product_fines_pct.den = EPS9

----------------------------------------------------------------------------
(* The interpolation applied to one table at one cutoff *)

MaxRows == 3
MaxSize == 3

SizeInputs == {Float(i) : i \in 1..MaxSize}
PassInputs == {Float(0), Float(50), Float(100)}
\* cutoffs on and between the sizes, and half a unit outside them
CutoffInputs == {Rat(i, 2) : i \in 1..(2 * MaxSize + 1)}
RowInputs == {Row(sz, p) : sz \in SizeInputs, p \in PassInputs}
TableInputs == UNION {[1..k -> RowInputs] : k \in 0..MaxRows}

DefaultCutoff == Rat(63, 1000)

InitInterp ==
    /\ pc = "start" /\ err = "none"
    /\ IdleUI /\ IdleLab /\ IdleMass
    /\ \/ /\ df_psd \in TableInputs
          /\ fines_cutoff \in CutoffInputs
       \/ /\ df_psd = parse_text_sieve(DEFAULT_PSD_TEXT)
          /\ fines_cutoff = DefaultCutoff
    /\ cutoff2 = Float(0)
    /\ fines_percent = NaN /\ fines2 = NaN

\* the call interpolate_passing_at(df_psd, fines_cutoff)
Interpolate ==
    /\ pc = "start"
    /\ fines_percent' \in interpolate_passing_at(df_psd, fines_cutoff)
    /\ pc' = "one"
    /\ UNCHANGED <<err, text_area, csv_file, mbv, se, fines_cutoff, add_entry, df_psd,
                   cutoff2, fines2, compatibility, qc_history,
                   feed_fines_pct, reject_rate_pct, reject_fines_grade_pct, product_fines_pct>>

NextInterp == Interpolate

SpecInterp == InitInterp /\ [][NextInterp]_vars

Sizes(df) == {df[i].Sieve_mm : i \in 1..Len(df)}
UniqueSizes(df) == \A i, j \in 1..Len(df) : df[i].Sieve_mm = df[j].Sieve_mm => i = j
BelowAll(c, df) == \A sz \in Sizes(df) : RLt(c, sz)
AboveAll(c, df) == \A sz \in Sizes(df) : RLt(sz, c)
Smallest(df) == {i \in 1..Len(df) : \A sz \in Sizes(df) : ~RLt(sz, df[i].Sieve_mm)}
Largest(df) == {i \in 1..Len(df) : \A sz \in Sizes(df) : ~RLt(df[i].Sieve_mm, sz)}

\* the value v answers the query c on df as an exact match should
ExactAt(df, c, v) == \A i \in 1..Len(df) : df[i].Sieve_mm = c => v = df[i].Passing_pct

\* C2: for every non-empty table with unique sizes, of any number of rows and in
\* any row order, and every reading (s, p) of it, interpolate_passing_at(table, s)
\* returns p; for the default PSD text and cutoff 0.063 the result is 13.7.
C2_ExactMatch ==
    /\ (pc = "one" /\ df_psd # <<>> /\ UniqueSizes(df_psd))
          => ExactAt(df_psd, fines_cutoff, fines_percent)
    /\ (pc = "one" /\ df_psd = parse_text_sieve(DEFAULT_PSD_TEXT)
          /\ fines_cutoff = DefaultCutoff)
          => fines_percent = Rat(137, 10)

\* the value v answers the query c on df as flat extrapolation should
FlatAt(df, c, v) ==
    /\ BelowAll(c, df) => \E i \in Smallest(df) : v = df[i].Passing_pct
    /\ AboveAll(c, df) => \E i \in Largest(df) : v = df[i].Passing_pct
    /\ (BelowAll(c, df) \/ AboveAll(c, df)) => ~IsNaN(v)

\* C3: for every non-empty table, a cutoff below the smallest size returns the
\* passing percent of the smallest-size reading and a cutoff above the largest
\* size that of the largest-size reading; neither nan nor an error is produced.
C3_FlatExtrapolation ==
    (pc = "one" /\ df_psd # <<>>) =>
        (FlatAt(df_psd, fines_cutoff, fines_percent) /\ err = "none")

C3_Witness ==
    /\ pc = "one"
    /\ df_psd = <<Row(Float(2), Float(50)), Row(Float(3), Float(100)), Row(Float(1), Float(0))>>
    /\ fines_cutoff = Rat(1, 2) /\ fines_percent = Float(0)

----------------------------------------------------------------------------
(* The interpolation applied to one monotone table at two cutoffs *)

\* passing percent non-decreasing in sieve size
Monotone(df) ==
    \A i, j \in 1..Len(df) :
        ~RLt(df[j].Sieve_mm, df[i].Sieve_mm) => ~RLt(df[j].Passing_pct, df[i].Passing_pct)
Interior(c, df) ==
    /\ \E sz \in Sizes(df) : RLt(sz, c)
    /\ \E sz \in Sizes(df) : RLt(c, sz)
\* rows hi, lo are neighbours in size and c lies strictly between them
StrictBracket(df, hi, lo, c) ==
    /\ RLt(df[lo].Sieve_mm, c) /\ RLt(c, df[hi].Sieve_mm)
    /\ \A sz \in Sizes(df) : ~(RLt(df[lo].Sieve_mm, sz) /\ RLt(sz, df[hi].Sieve_mm))
\* v is the linear interpolant at c, and lies between the two ends
LinearAt(df, c, v) ==
    \A hi, lo \in 1..Len(df) :
        StrictBracket(df, hi, lo, c) =>
            LET s_hi == df[hi].Sieve_mm
                s_lo == df[lo].Sieve_mm
                p_hi == df[hi].Passing_pct
                p_lo == df[lo].Passing_pct
            IN  /\ ~IsNaN(v)
                /\ RMul(RSub(v, p_lo), RSub(s_hi, s_lo)) = RMul(RSub(c, s_lo), RSub(p_hi, p_lo))
                /\ FLe(p_lo, v) /\ FLe(v, p_hi)

InitMono ==
    /\ pc = "start" /\ err = "none"
    /\ IdleUI /\ IdleLab /\ IdleMass
    /\ df_psd \in {t \in TableInputs : Cardinality(Sizes(t)) >= 2 /\ Monotone(t)}
    /\ fines_cutoff \in CutoffInputs
    /\ cutoff2 \in {c \in CutoffInputs : ~RLt(c, fines_cutoff)}
    /\ fines_percent = NaN /\ fines2 = NaN

\* the call interpolate_passing_at(df_psd, cutoff2)
InterpolateAgain ==
    /\ pc = "one"
    /\ fines2' \in interpolate_passing_at(df_psd, cutoff2)
    /\ pc' = "done"
    /\ UNCHANGED <<err, text_area, csv_file, mbv, se, fines_cutoff, add_entry, df_psd,
                   fines_percent, cutoff2, compatibility, qc_history,
                   feed_fines_pct, reject_rate_pct, reject_fines_grade_pct, product_fines_pct>>

NextMono == Interpolate \/ InterpolateAgain

SpecMono == InitMono /\ [][NextMono]_vars

----------------------------------------------------------------------------
(* main(): one render cycle per interaction, history kept across cycles *)

MaxLines == 2
MaxCsvRows == 2
MaxHistory == 1

LineInputs ==
    { <<"0", ".", "1", ":", "2", "0">>,
      <<" ", "0", ".", "0", "5", " ", ":", " ", "1", "0">>,
      <<"a", "b", "c">>,                         \* no colon
      <<"1", ":", "2", ":", "3">>,               \* three fields
      <<"0", ".", "0", "6", "3", ":", "x">> }    \* percent not a number
CsvRowInputs ==
    { <<<<"0", ".", "1">>, <<"2", "0">>>>,
      <<<<"0", ".", "0", "5">>, <<"1", "0">>>>,
      <<<<"a", "b", "c">>, <<"5">>>>,            \* size not a number
      <<<<"2">>>>,                               \* a field short
      <<<<>>, <<"7">>>> }                        \* empty size
HeaderInputs == { <<"Sieve_mm", "Passing_pct">>, <<"PASSING", "Sieve">>, <<"mm", "pct">> }

RECURSIVE Join(_)
Join(lines) ==
    IF lines = <<>> THEN <<>>
    ELSE IF Len(lines) = 1 THEN lines[1]
    ELSE lines[1] \o <<"\n">> \o Join(Tail(lines))

TextInputs == {Join(ls) : ls \in UNION {[1..k -> LineInputs] : k \in 0..MaxLines}}
FileInputs ==
    {[present |-> TRUE, header |-> h, rows |-> rs] :
        h \in HeaderInputs, rs \in UNION {[1..k -> CsvRowInputs] : k \in 0..MaxCsvRows}}

\* the selectbox's options, and the number inputs' values tried
CutoffOptions == {Rat(75, 1000), Rat(63, 1000), Rat(5, 100), Rat(1, 10)}
LabInputs == {[mbv |-> Float(5), se |-> Float(60)], [mbv |-> Float(2), se |-> Float(80)]}

\* round(x, 2): to the nearest hundredth, ties to even
round2(x) ==
    IF IsNaN(x) THEN NaN
    ELSE LET num == x.n * 100
             q == num \div x.d
             r == num - q * x.d
             up == (2 * r > x.d) \/ (2 * r = x.d /\ q % 2 = 1)
         IN  Rat(IF up THEN q + 1 ELSE q, 100)

\* the history row of lines 207-214, without its wall-clock timestamp
new_entry ==
    [fines_cutoff_mm |-> fines_cutoff,
     fines_pct |-> round2(fines_percent),
     MBV_mg_g |-> round2(mbv),
     SE |-> se,
     compatibility |-> compatibility]

\* what main() holds outside a run: its locals are gone, the session state stays
NoLocals ==
    /\ text_area = <<>> /\ csv_file = NoFile /\ add_entry = FALSE
    /\ mbv = Float(0) /\ se = Float(0) /\ fines_cutoff = Float(0)
    /\ df_psd = <<>> /\ fines_percent = NaN /\ compatibility = "none"

Init ==
    /\ pc = "idle" /\ err = "none"
    /\ qc_history = <<>>
    /\ NoLocals
    /\ cutoff2 = Float(0) /\ fines2 = NaN
    /\ IdleMass

\* lines 141-150: a run starts and setup_sidebar() returns the widgets' values:
\* those of a first visit, or what the user has put in
Sidebar ==
    /\ pc = "idle"
    /\ Len(qc_history) < MaxHistory
    /\ \/ /\ text_area' = DEFAULT_PSD_TEXT /\ csv_file' = NoFile
          /\ mbv' = Rat(65, 10) /\ se' = Float(65) /\ fines_cutoff' = Rat(63, 1000)
       \/ /\ \/ text_area' \in TextInputs /\ csv_file' = NoFile
             \/ text_area' = DEFAULT_PSD_TEXT /\ csv_file' \in FileInputs
          /\ \E lab \in LabInputs : mbv' = lab.mbv /\ se' = lab.se
          /\ fines_cutoff' \in CutoffOptions
    /\ add_entry' \in BOOLEAN
    /\ pc' = "rerun"
    /\ UNCHANGED <<err, df_psd, fines_percent, cutoff2, fines2, compatibility, qc_history,
                   feed_fines_pct, reject_rate_pct, reject_fines_grade_pct, product_fines_pct>>

\* line 152
Parse ==
    /\ pc = "rerun"
    /\ LET res == IF csv_file.present
                  THEN parse_csv(csv_file)
                  ELSE [err |-> "none", rows |-> parse_text_sieve(text_area)]
       IN  /\ err' = res.err
           /\ df_psd' = res.rows
           /\ pc' = IF res.err = "none" THEN "parsed" ELSE "crashed"
    /\ UNCHANGED <<text_area, csv_file, mbv, se, fines_cutoff, add_entry,
                   fines_percent, cutoff2, fines2, compatibility, qc_history,
                   feed_fines_pct, reject_rate_pct, reject_fines_grade_pct, product_fines_pct>>

\* the columns of the frame either parser returns
Columns == <<"Sieve_mm", "Passing_pct">>

\* df.empty or df.shape[1] < 2: no row, or fewer than two columns
InvalidTable(df) == Len(df) = 0 \/ Len(Columns) < 2

\* lines 154-156
Validate ==
    /\ pc = "parsed"
    /\ pc' = IF InvalidTable(df_psd) THEN "stopped" ELSE "valid"
    /\ UNCHANGED <<err, text_area, csv_file, mbv, se, fines_cutoff, add_entry, df_psd,
                   fines_percent, cutoff2, fines2, compatibility, qc_history,
                   feed_fines_pct, reject_rate_pct, reject_fines_grade_pct, product_fines_pct>>

\* lines 158-160
Compute ==
    /\ pc = "valid"
    /\ \E sorted \in sort_values(df_psd) :
          /\ df_psd' = sorted
          /\ fines_percent' \in interpolate_passing_at(sorted, fines_cutoff)
    /\ compatibility' = get_mortar_compatibility(mbv, se, fines_percent')
    /\ pc' = "computed"
    /\ UNCHANGED <<err, text_area, csv_file, mbv, se, fines_cutoff, add_entry,
                   cutoff2, fines2, qc_history,
                   feed_fines_pct, reject_rate_pct, reject_fines_grade_pct, product_fines_pct>>

\* lines 163-233: the page; the history grows when the button was pressed
Render ==
    /\ pc = "computed"
    /\ qc_history' = IF add_entry THEN Append(qc_history, new_entry) ELSE qc_history
    /\ pc' = "rendered"
    /\ UNCHANGED <<err, text_area, csv_file, mbv, se, fines_cutoff, add_entry, df_psd,
                   fines_percent, cutoff2, fines2, compatibility,
                   feed_fines_pct, reject_rate_pct, reject_fines_grade_pct, product_fines_pct>>

\* the run is over (page drawn, st.stop() or an uncaught exception)
EndRun ==
    /\ pc \in {"rendered", "stopped", "crashed"}
    /\ text_area' = <<>> /\ csv_file' = NoFile /\ add_entry' = FALSE
    /\ mbv' = Float(0) /\ se' = Float(0) /\ fines_cutoff' = Float(0)
    /\ df_psd' = <<>> /\ fines_percent' = NaN /\ compatibility' = "none"
    /\ err' = "none"
    /\ pc' = "idle"
    /\ UNCHANGED <<cutoff2, fines2, qc_history,
                   feed_fines_pct, reject_rate_pct, reject_fines_grade_pct, product_fines_pct>>

Next == Sidebar \/ Parse \/ Validate \/ Compute \/ Render \/ EndRun

Spec == Init /\ [][Next]_vars

InRun == pc \in {"parsed", "stopped", "valid", "computed", "rendered"}

\* C6: whenever parsing yields fewer than 2 usable PSD records (0 or 1 rows), the
\* cycle halts at validation: interpolate_passing_at and get_mortar_compatibility
\* are not invoked for that input and no QC record is appended for it.
C6_InvalidTableHalts ==
    (InRun /\ Len(df_psd) < 2) =>
        /\ pc \in {"parsed", "stopped"}
        /\ IsNaN(fines_percent) /\ compatibility = "none"

\* a text line with exactly two fields, both numbers
WellFormedLine(line) ==
    LET fields == Split(line, ":")
    IN  Len(fields) = 2 /\ IsFloatLiteral(fields[1]) /\ IsFloatLiteral(fields[2])
\* a CSV row whose first two fields are both numbers
WellFormedRow(row) ==
    Len(row) >= 2 /\ IsFloatLiteral(row[1]) /\ IsFloatLiteral(row[2])
WellFormedCount ==
    IF csv_file.present
    THEN Len(SelectSeq(csv_file.rows, WellFormedRow))
    ELSE Len(SelectSeq(Split(Strip(text_area), "\n"), WellFormedLine))

\* C7: for text and for tabular input alike, every malformed record is dropped
\* without an error, every well-formed record is kept, and parsing never ends in
\* an error state.
C7_LenientParse ==
    /\ pc # "crashed" /\ err = "none"
    /\ InRun => Len(df_psd) = WellFormedCount

\* C8 as stated: the table the parser returns is sorted by descending sieve size.
C8_ParserReturnsSorted ==
    pc = "parsed" => IsSortedDesc(df_psd)

\* C8 as amended: the table main() carries on with after its own sort (line 158),
\* which interpolation, display and the report read, is sorted by descending sieve
\* size for every input and whatever the order of the input lines or rows.
C8_SortedAfterMainSort ==
    pc \in {"computed", "rendered"} => IsSortedDesc(df_psd)

C8_Witness ==
    /\ pc = "computed"
    /\ ~csv_file.present
    /\ ~IsSortedDesc(parse_text_sieve(text_area))
    /\ Len(df_psd) = 2
    /\ RLt(df_psd[2].Sieve_mm, df_psd[1].Sieve_mm)

====
